---------------------------- MODULE Spec2Model ----------------------------
(***************************************************************************)
(* A model of package errors (qri-io/errors, src/error.go): the code       *)
(* registry codePool with RegisterCode / CodeString / CodeHTTPStatus, the  *)
(* Error type with its constructors and methods, and Cause.                *)
(*                                                                         *)
(* An error value (a Go `error` interface value) is a sequence of nodes,   *)
(* outermost first; each node's cause is the rest of the sequence and the  *)
(* nil error is the empty sequence.  Strings are TLA+ strings, built with  *)
(* \o exactly where the code calls fmt.Sprintf or +=.                      *)
(***************************************************************************)
EXTENDS Integers, Sequences, FiniteSets, TLC

VARIABLES
    codePool,   \* var codePool: map[Code]codeDetails
    prevPool,   \* history: codePool as it was when the last call began
    firstReg,   \* history: the details each successful RegisterCode stored
    err,        \* the caller's error variable (an error value, maybe nil)
    op,         \* the last call: its name and its arguments
    ret,        \* what the last call returned (or that it panicked)
    panicked,   \* an unrecovered panic has ended the program
    pc,         \* concurrent model: where each goroutine is
    loc,        \* concurrent model: each goroutine's arguments and locals
    writing,    \* concurrent model: goroutines in the middle of a map write
    crashed     \* concurrent model: the runtime threw a fatal map-access error

vars == <<codePool, prevPool, firstReg, err, op, ret, panicked,
          pc, loc, writing, crashed>>

---------------------------------------------------------------------------
(* Codes: const block, src/error.go 23-43.                                 *)

CodeUnknown == 0
CodeGeneric == 1
CodeInvalidSyntax == 2
CodeInvalidArgs == 3
CodeUnauthorized == 4
CodeForbidden == 5
CodeNotFound == 6
CodeUnavailable == 7

\* CodeNoDatabase := Code(100) of TestRegisterCode
CodeNoDatabase == 100

\* the eight built-in codes
BuiltinCodes == CodeUnknown .. CodeUnavailable

\* type codeDetails struct { httpStatus int; str string }
codeDetails(httpStatus, str) == [httpStatus |-> httpStatus, str |-> str]

\* the composite literal that initialises codePool
InitCodePool ==
    (CodeUnknown       :> codeDetails(500, "error")) @@
    (CodeGeneric       :> codeDetails(500, "error")) @@
    (CodeInvalidSyntax :> codeDetails(400, "syntax")) @@
    (CodeInvalidArgs   :> codeDetails(400, "arguments")) @@
    (CodeUnauthorized  :> codeDetails(401, "auth")) @@
    (CodeForbidden     :> codeDetails(403, "auth")) @@
    (CodeNotFound      :> codeDetails(404, "missing")) @@
    (CodeUnavailable   :> codeDetails(503, "unavailable"))

---------------------------------------------------------------------------
(* Values and their %v rendering.                                          *)

\* a data value (interface{}): a Go string or a Go integer (int or Code)
StrVal(s) == [t |-> "string", s |-> s, i |-> 0]
IntVal(i) == [t |-> "int", s |-> "", i |-> i]

Digits == <<"0", "1", "2", "3", "4", "5", "6", "7", "8", "9">>

\* the decimal form fmt gives an integer
RECURSIVE Itoa(_)
Itoa(n) ==
    IF n < 0 THEN "-" \o Itoa(-n)
    ELSE IF n < 10 THEN Digits[n + 1]
    ELSE Itoa(n \div 10) \o Digits[(n % 10) + 1]

\* fmt's %v of a data value
FmtV(d) == IF d.t = "string" THEN d.s ELSE Itoa(d.i)

---------------------------------------------------------------------------
(* Error values.                                                           *)

\* the nil error
Nil == <<>>

Node(kind, code, msg, friendly, fix, data) ==
    [kind |-> kind, code |-> code, msg |-> msg,
     friendly |-> friendly, fix |-> fix, data |-> data]

\* &Error{code, friendly, fix, data, cause}: the cause is the rest of the chain
ErrorNode(code, friendly, fix, data) == Node("Error", code, "", friendly, fix, data)
\* pkg/errors' fundamental (errors.New), withMessage and withStack (errors.Wrap)
Fundamental(msg) == Node("fundamental", 0, msg, "", "", <<>>)
WithMessage(msg) == Node("withMessage", 0, msg, "", "", <<>>)
WithStack == Node("withStack", 0, "", "", "", <<>>)
\* an error of another package with no Cause method (fmt.Errorf)
Plain(msg) == Node("plain", 0, msg, "", "", <<>>)

\* err.(*Error)
IsError(e) == e # Nil /\ Head(e).kind = "Error"
\* err.(causer): the dynamic type has a Cause() error method
IsCauser(e) == e # Nil /\ Head(e).kind \in {"Error", "withMessage", "withStack"}

\* errors.New(message)
ErrorsNew(message) == <<Fundamental(message)>>

\* errors.Wrap(err, message): nil for a nil err, else
\* &withStack{&withMessage{cause: err, msg: message}, callers()}
ErrorsWrap(e, message) ==
    IF e = Nil THEN Nil ELSE <<WithStack, WithMessage(message)>> \o e

---------------------------------------------------------------------------
(* Code registry, src/error.go 61-85.                                      *)

\* CodeString reading the map without the ok test: an absent key gives the
\* zero codeDetails, whose str is ""
CodeStringNoDefault(pool, c) ==
    IF c \in DOMAIN pool THEN pool[c].str ELSE ""

\* func CodeString(c Code) string, on the map value pool
CodeString(pool, c) ==
    IF c \in DOMAIN pool THEN pool[c].str ELSE "error"

\* func CodeHTTPStatus(c Code) int
CodeHTTPStatus(pool, c) ==
    IF c \in DOMAIN pool THEN pool[c].httpStatus ELSE 500

---------------------------------------------------------------------------
(* Constructors, src/error.go 142-181.  Each returns a non-nil *Error.     *)

\* func New(c Code, message string, data ...interface{}) *Error
New(c, message, data) ==
    <<ErrorNode(c, "", "", data)>> \o ErrorsNew(message)

\* func NewFriendly: err := New(...); err.friendly = friendly
NewFriendly(c, message, friendly, data) ==
    [New(c, message, data) EXCEPT ![1].friendly = friendly]

\* func NewFriendlyFix: err := NewFriendly(...); err.fix = fix
NewFriendlyFix(c, message, friendly, fix, data) ==
    [NewFriendly(c, message, friendly, data) EXCEPT ![1].fix = fix]

\* func Wrap: &Error{code: c, data: data, cause: errors.Wrap(err, message)}
Wrap(c, e, message, data) ==
    <<ErrorNode(c, "", "", data)>> \o ErrorsWrap(e, message)

\* func WrapFriendly: e := Wrap(...); e.friendly = friendly
WrapFriendly(c, e, message, friendly, data) ==
    [Wrap(c, e, message, data) EXCEPT ![1].friendly = friendly]

\* func WrapFriendlyFix: e := WrapFriendly(...); e.fix = fix
WrapFriendlyFix(c, e, message, friendly, fix, data) ==
    [WrapFriendly(c, e, message, friendly, data) EXCEPT ![1].fix = fix]

---------------------------------------------------------------------------
(* RegisterCode, src/error.go 61-69.                                       *)

\* RegisterCode storing before it tests: the details are replaced, then the
\* error is returned
RegisterCodeStoresFirst(pool, c, httpStatus, typeStr) ==
    [pool |-> (c :> codeDetails(httpStatus, typeStr)) @@ pool,
     err  |-> IF c \in DOMAIN pool
              THEN New(CodeInvalidArgs, "already registered", <<IntVal(c)>>)
              ELSE Nil]

\* RegisterCode without the test: every call stores and returns nil
RegisterCodeOverwrite(pool, c, httpStatus, typeStr) ==
    [pool |-> (c :> codeDetails(httpStatus, typeStr)) @@ pool, err |-> Nil]

\* RegisterCode assigning a fresh map holding only the new code
RegisterCodeReplaces(pool, c, httpStatus, typeStr) ==
    IF c \in DOMAIN pool
    THEN [pool |-> pool,
          err  |-> New(CodeInvalidArgs, "already registered", <<IntVal(c)>>)]
    ELSE [pool |-> (c :> codeDetails(httpStatus, typeStr)), err |-> Nil]

\* func RegisterCode(c Code, httpStatus int, typeStr string) error:
\* the map after the call and the error returned
RegisterCode(pool, c, httpStatus, typeStr) ==
    IF c \in DOMAIN pool
    THEN [pool |-> pool,
          err  |-> New(CodeInvalidArgs, "already registered", <<IntVal(c)>>)]
    ELSE [pool |-> (c :> codeDetails(httpStatus, typeStr)) @@ pool,
          err  |-> Nil]

---------------------------------------------------------------------------
(* Methods of Error, src/error.go 101-140, and Cause, 183-186.             *)

\* the outcome of a call that returns a string: the string, or a panic
Returned(s) == [panic |-> FALSE, s |-> s]
Panic == [panic |-> TRUE, s |-> ""]

\* func (e Error) Cause() error
Error_Cause(e) == Tail(e)

\* func (e Error) Code() Code
Error_Code(e) == Head(e).code

\* func (e Error) Fix() string
Error_Fix(e) == Head(e).fix

RECURSIVE Error_Error(_, _), DynError(_, _)

\* func (e Error) Error() string:
\* fmt.Sprintf("%s: %s", CodeString(e.code), e.cause.Error())
Error_Error(pool, e) ==
    LET r == DynError(pool, Error_Cause(e))
    IN  IF r.panic THEN Panic
        ELSE Returned(CodeString(pool, Head(e).code) \o ": " \o r.s)

\* x.Error() on an error interface value x, by its dynamic type; the call
\* on a nil interface value is a nil dereference, which panics
DynError(pool, e) ==
    IF e = Nil THEN Panic
    ELSE CASE Head(e).kind = "Error" -> Error_Error(pool, e)
           [] Head(e).kind = "withStack" -> DynError(pool, Tail(e))
           [] Head(e).kind = "withMessage" ->
                LET r == DynError(pool, Tail(e))
                IN  IF r.panic THEN Panic
                    ELSE Returned(Head(e).msg \o ": " \o r.s)
           [] OTHER -> Returned(Head(e).msg)

\* the loop of Friendly with i < len(e.data) as the test: every value is
\* followed by a comma
RECURSIVE FriendlyDataAllCommas(_, _, _)
FriendlyDataAllCommas(str, data, i) ==
    IF i >= Len(data) THEN str
    ELSE FriendlyDataAllCommas(
             (str \o " " \o FmtV(data[i + 1]))
                 \o (IF i < Len(data) THEN "," ELSE "."),
             data, i + 1)

\* the loop of Friendly: for i, d := range e.data { ... }, from index i (0-based)
RECURSIVE FriendlyData(_, _, _)
FriendlyData(str, data, i) ==
    IF i >= Len(data) THEN str
    ELSE FriendlyData(
             (str \o " " \o FmtV(data[i + 1]))
                 \o (IF i < Len(data) - 1 THEN "," ELSE "."),
             data, i + 1)

\* func (e Error) Friendly() string
Error_Friendly(pool, e) ==
    IF Head(e).friendly = "" /\ Head(e).fix = "" THEN ""
    ELSE LET str == FriendlyData(
                        CodeString(pool, Head(e).code) \o ": " \o Head(e).friendly,
                        Head(e).data, 0)
         IN  IF Head(e).fix # "" THEN str \o " " \o Head(e).fix ELSE str

\* func Cause(err error) error: errors.Cause, which follows Cause() while the
\* error is non-nil and has the method
RECURSIVE Cause(_)
Cause(e) ==
    IF e # Nil /\ IsCauser(e) THEN Cause(Tail(e)) ELSE e

---------------------------------------------------------------------------
(* Bounds and the inputs the calls are made with.                          *)

\* the longest chain of Wrap-family calls applied to one error
MaxWraps == 2
\* the longest data list given to a constructor in SpecFriendly
MaxData == 3
\* the number of goroutines in SpecConc
NumGoroutines == 2

FriendlyText == "you don't have access to the following things:"
FixText == "are you sure you're logged in?"

\* an error of another package, as in the package's example
PlainErr == <<Plain("not found")>>

\* SpecRegistry: codes registered and looked up, and the details offered
RegCodes == BuiltinCodes \cup {-1, CodeNoDatabase}
LookupCodes == BuiltinCodes \cup {-1, CodeNoDatabase, 101}
Statuses == {200, 504}
Labels == {"forbidden", "database"}

\* SpecFriendly: the arguments of the friendly constructors
FriendlyCodes == {CodeGeneric, CodeForbidden, CodeNoDatabase}
Friendlies == {"", "message", FriendlyText}
Fixes == {"", FixText}
DataVals == {StrVal("apples"), StrVal("oranges"), IntVal(1)}
DataLists == UNION {[1 .. n -> DataVals] : n \in 0 .. MaxData}

\* the number of *Error values in a chain
Depth(e) == Cardinality({i \in 1 .. Len(e) : e[i].kind = "Error"})

---------------------------------------------------------------------------
(* State.                                                                  *)

Goroutines == 1 .. NumGoroutines

NoRet == [s |-> "", n |-> 0, e |-> Nil, panic |-> FALSE]
Call(fn, c, httpStatus, typeStr, in) ==
    [fn |-> fn, c |-> c, httpStatus |-> httpStatus, typeStr |-> typeStr, in |-> in]
NoLoc == [fn |-> "", c |-> 0, httpStatus |-> 0, typeStr |-> "",
          fresh |-> FALSE, ok |-> FALSE, res |-> ""]

Init ==
    /\ codePool = InitCodePool
    /\ prevPool = InitCodePool
    /\ firstReg = [c \in {} |-> codeDetails(0, "")]
    /\ err = Nil
    /\ op = Call("", 0, 0, "", Nil)
    /\ ret = NoRet
    /\ panicked = FALSE
    /\ pc = [g \in Goroutines |-> "idle"]
    /\ loc = [g \in Goroutines |-> NoLoc]
    /\ writing = {}
    /\ crashed = FALSE

concVars == <<pc, loc, writing, crashed>>

---------------------------------------------------------------------------
(* Sequential calls: one action per exported function or method.           *)

RegisterCodeAct(c, httpStatus, typeStr) ==
    /\ ~panicked
    /\ LET r == RegisterCode(codePool, c, httpStatus, typeStr)
       IN  /\ codePool' = r.pool
           /\ ret' = [NoRet EXCEPT !.e = r.err]
           /\ firstReg' = IF r.err = Nil /\ c \notin DOMAIN firstReg
                          THEN (c :> codeDetails(httpStatus, typeStr)) @@ firstReg
                          ELSE firstReg
    /\ prevPool' = codePool
    /\ op' = Call("RegisterCode", c, httpStatus, typeStr, Nil)
    /\ UNCHANGED <<err, panicked, concVars>>

CodeStringAct(c) ==
    /\ ~panicked
    /\ ret' = [NoRet EXCEPT !.s = CodeString(codePool, c)]
    /\ prevPool' = codePool
    /\ op' = Call("CodeString", c, 0, "", Nil)
    /\ UNCHANGED <<codePool, firstReg, err, panicked, concVars>>

CodeHTTPStatusAct(c) ==
    /\ ~panicked
    /\ ret' = [NoRet EXCEPT !.n = CodeHTTPStatus(codePool, c)]
    /\ prevPool' = codePool
    /\ op' = Call("CodeHTTPStatus", c, 0, "", Nil)
    /\ UNCHANGED <<codePool, firstReg, err, panicked, concVars>>

\* err = <constructor>(...): the frame shared by the six constructors
Construct(fn, c, in, e) ==
    /\ ~panicked
    /\ Depth(in) <= MaxWraps
    /\ err' = e
    /\ ret' = NoRet
    /\ prevPool' = codePool
    /\ op' = Call(fn, c, 0, "", in)
    /\ UNCHANGED <<codePool, firstReg, panicked, concVars>>

NewAct(c, message, data) ==
    Construct("New", c, Nil, New(c, message, data))

NewFriendlyAct(c, message, friendly, data) ==
    Construct("NewFriendly", c, Nil, NewFriendly(c, message, friendly, data))

NewFriendlyFixAct(c, message, friendly, fix, data) ==
    Construct("NewFriendlyFix", c, Nil,
              NewFriendlyFix(c, message, friendly, fix, data))

WrapAct(c, in, message, data) ==
    Construct("Wrap", c, in, Wrap(c, in, message, data))

WrapFriendlyAct(c, in, message, friendly, data) ==
    Construct("WrapFriendly", c, in, WrapFriendly(c, in, message, friendly, data))

WrapFriendlyFixAct(c, in, message, friendly, fix, data) ==
    Construct("WrapFriendlyFix", c, in,
              WrapFriendlyFix(c, in, message, friendly, fix, data))

\* a call of a method of err, or of Cause: the frame
Observe(fn, in, r, p) ==
    /\ ~panicked
    /\ ret' = r
    /\ panicked' = p
    /\ prevPool' = codePool
    /\ op' = Call(fn, 0, 0, "", in)
    /\ UNCHANGED <<codePool, firstReg, err, concVars>>

\* err.(*Error).Error(); a panic is not recovered
ErrorAct ==
    /\ IsError(err)
    /\ LET r == Error_Error(codePool, err)
       IN  Observe("Error", err, [NoRet EXCEPT !.s = r.s, !.panic = r.panic], r.panic)

FriendlyAct ==
    /\ IsError(err)
    /\ Observe("Friendly", err,
               [NoRet EXCEPT !.s = Error_Friendly(codePool, err)], FALSE)

CauseMethodAct ==
    /\ IsError(err)
    /\ Observe("Error.Cause", err, [NoRet EXCEPT !.e = Error_Cause(err)], FALSE)

CodeAct ==
    /\ IsError(err)
    /\ Observe("Code", err, [NoRet EXCEPT !.n = Error_Code(err)], FALSE)

FixAct ==
    /\ IsError(err)
    /\ Observe("Fix", err, [NoRet EXCEPT !.s = Error_Fix(err)], FALSE)

\* Cause(in)
CauseAct(in) ==
    Observe("Cause", in, [NoRet EXCEPT !.e = Cause(in)], FALSE)

---------------------------------------------------------------------------
(* Spec: the constructors, the methods and Cause, with RegisterCode        *)
(* changing the registry between the calls.  The arguments are those of    *)
(* the package's tests, each constructor also with the unregistered code.  *)

Next ==
    \/ \E c \in {CodeForbidden, CodeNoDatabase} : RegisterCodeAct(c, 504, "database")
    \/ \E c \in {CodeGeneric, CodeNoDatabase} : NewAct(c, "so bad", <<>>)
    \/ \E c \in {CodeGeneric, CodeNoDatabase} :
           NewFriendlyAct(c, "machine error", "message", <<>>)
    \/ \E c \in {CodeForbidden, CodeNoDatabase} :
           NewFriendlyFixAct(c, "forbidden", FriendlyText, FixText,
                             <<StrVal("apples"), StrVal("oranges")>>)
    \/ \E c \in {CodeInvalidArgs, CodeNoDatabase}, in \in {err, Nil, PlainErr} :
           WrapAct(c, in, "a", <<>>)
    \/ \E c \in {CodeNotFound, CodeNoDatabase}, in \in {err, Nil, PlainErr} :
           WrapFriendlyAct(c, in, "", "couldn't find data with the id",
                           <<IntVal(1)>>)
    \/ \E c \in {CodeForbidden, CodeNoDatabase}, in \in {err, Nil, PlainErr} :
           WrapFriendlyFixAct(c, in, "you're not allowed access to the value",
                              "please try a different value", "a", <<>>)
    \/ ErrorAct
    \/ FriendlyAct
    \/ CauseMethodAct
    \/ CodeAct
    \/ FixAct
    \/ \E in \in {err, Nil, PlainErr} : CauseAct(in)

Spec == Init /\ [][Next]_vars

---------------------------------------------------------------------------
(* SpecRegistry: the registry alone, over more codes and details.          *)

NextRegistry ==
    \/ \E c \in RegCodes, s \in Statuses, l \in Labels : RegisterCodeAct(c, s, l)
    \/ \E c \in LookupCodes : CodeStringAct(c)
    \/ \E c \in LookupCodes : CodeHTTPStatusAct(c)

SpecRegistry == Init /\ [][NextRegistry]_vars

---------------------------------------------------------------------------
(* SpecFriendly: Friendly as a function of an Error value.  The value is   *)
(* one the friendly constructors return, over every data list of up to     *)
(* MaxData values; Friendly is then called, before or after the value's    *)
(* code is registered.                                                     *)

FriendlyInputs ==
    {Call("NewFriendlyFix", c, 0, "", Nil) : c \in FriendlyCodes}
        \cup {Call("WrapFriendlyFix", c, 0, "", in) :
                  c \in FriendlyCodes, in \in {Nil, PlainErr}}

InitFriendly ==
    /\ codePool = InitCodePool
    /\ prevPool = InitCodePool
    /\ firstReg = [c \in {} |-> codeDetails(0, "")]
    /\ op \in FriendlyInputs
    /\ \E friendly \in Friendlies, fix \in Fixes, data \in DataLists :
           err = IF op.fn = "NewFriendlyFix"
                 THEN NewFriendlyFix(op.c, "forbidden", friendly, fix, data)
                 ELSE WrapFriendlyFix(op.c, op.in, "forbidden", friendly, fix, data)
    /\ ret = NoRet
    /\ panicked = FALSE
    /\ pc = [g \in Goroutines |-> "idle"]
    /\ loc = [g \in Goroutines |-> NoLoc]
    /\ writing = {}
    /\ crashed = FALSE

NextFriendly ==
    \/ FriendlyAct
    \/ RegisterCodeAct(CodeNoDatabase, 504, "database")

SpecFriendly == InitFriendly /\ [][NextFriendly]_vars

---------------------------------------------------------------------------
(* SpecConc: goroutines calling RegisterCode and CodeString with no        *)
(* synchronisation, as the code has none.  A goroutine's RegisterCode is   *)
(* the map read of line 64, then the map assignment of line 67; the        *)
(* assignment marks the map as being written, stores, and clears the mark. *)
(* An access that meets another goroutine's mark is a data race; the Go    *)
(* runtime may detect it and end the program with a fatal error, or the    *)
(* access may go through.                                                  *)

\* RegisterCode(c, httpStatus, typeStr) is called
GoCallRegister(g, c, httpStatus, typeStr) ==
    /\ ~crashed
    /\ pc[g] = "idle"
    /\ pc' = [pc EXCEPT ![g] = "reg_check"]
    /\ loc' = [loc EXCEPT ![g] = [NoLoc EXCEPT !.fn = "RegisterCode", !.c = c,
                                      !.httpStatus = httpStatus, !.typeStr = typeStr,
                                      !.fresh = c \notin DOMAIN codePool]]
    /\ UNCHANGED <<codePool, prevPool, firstReg, err, op, ret, panicked,
                   writing, crashed>>

\* if _, ok := codePool[c]; ok { return New(...) }
GoRegCheck(g) ==
    /\ ~crashed
    /\ pc[g] = "reg_check"
    /\ IF loc[g].c \in DOMAIN codePool
       THEN /\ pc' = [pc EXCEPT ![g] = "done"]
            /\ loc' = [loc EXCEPT ![g].ok = TRUE, ![g].res = "already registered"]
       ELSE /\ pc' = [pc EXCEPT ![g] = "reg_write"]
            /\ loc' = [loc EXCEPT ![g].ok = FALSE]
    /\ UNCHANGED <<codePool, prevPool, firstReg, err, op, ret, panicked,
                   writing, crashed>>

\* codePool[c] = ...: the assignment begins
GoRegWrite(g) ==
    /\ ~crashed
    /\ pc[g] = "reg_write"
    /\ writing' = writing \cup {g}
    /\ pc' = [pc EXCEPT ![g] = "reg_store"]
    /\ UNCHANGED <<codePool, prevPool, firstReg, err, op, ret, panicked,
                   loc, crashed>>

\* codePool[c] = codeDetails{httpStatus, typeStr} is stored; return nil
GoRegStore(g) ==
    /\ ~crashed
    /\ pc[g] = "reg_store"
    /\ codePool' = (loc[g].c :> codeDetails(loc[g].httpStatus, loc[g].typeStr))
                       @@ codePool
    /\ writing' = writing \ {g}
    /\ pc' = [pc EXCEPT ![g] = "done"]
    /\ loc' = [loc EXCEPT ![g].res = "nil"]
    /\ UNCHANGED <<prevPool, firstReg, err, op, ret, panicked, crashed>>

\* CodeString(c) is called
GoCallCodeString(g, c) ==
    /\ ~crashed
    /\ pc[g] = "idle"
    /\ pc' = [pc EXCEPT ![g] = "lookup"]
    /\ loc' = [loc EXCEPT ![g] = [NoLoc EXCEPT !.fn = "CodeString", !.c = c,
                                      !.fresh = c \notin DOMAIN codePool]]
    /\ UNCHANGED <<codePool, prevPool, firstReg, err, op, ret, panicked,
                   writing, crashed>>

\* if s, ok := codePool[c]; ok { return s.str }; return "error"
GoCodeString(g) ==
    /\ ~crashed
    /\ pc[g] = "lookup"
    /\ pc' = [pc EXCEPT ![g] = "done"]
    /\ loc' = [loc EXCEPT ![g].ok = loc[g].c \in DOMAIN codePool,
                          ![g].res = CodeString(codePool, loc[g].c)]
    /\ UNCHANGED <<codePool, prevPool, firstReg, err, op, ret, panicked,
                   writing, crashed>>

\* a map access meets another goroutine's write in progress and the runtime
\* throws "concurrent map writes" / "concurrent map read and map write"
GoFatal(g) ==
    /\ ~crashed
    /\ pc[g] \in {"reg_check", "reg_write", "lookup"}
    /\ writing \ {g} # {}
    /\ crashed' = TRUE
    /\ UNCHANGED <<codePool, prevPool, firstReg, err, op, ret, panicked,
                   pc, loc, writing>>

NextConc ==
    \/ \E g \in Goroutines, c \in {CodeForbidden, CodeNoDatabase},
          d \in {codeDetails(504, "database"), codeDetails(200, "forbidden")} :
           GoCallRegister(g, c, d.httpStatus, d.str)
    \/ \E g \in Goroutines : GoRegCheck(g)
    \/ \E g \in Goroutines : GoRegWrite(g)
    \/ \E g \in Goroutines : GoRegStore(g)
    \/ \E g \in Goroutines, c \in {CodeForbidden, CodeNoDatabase} :
           GoCallCodeString(g, c)
    \/ \E g \in Goroutines : GoCodeString(g)
    \/ \E g \in Goroutines : GoFatal(g)

SpecConc == Init /\ [][NextConc]_vars

---------------------------------------------------------------------------
(* Properties of the registry, checked under SpecRegistry.                 *)

\* C1: RegisterCode on a code that is already in the registry (built in or
\* registered earlier) returns a non-nil error and leaves the registry as it
\* was: the code's status and label are what they were before the call.
C1_DuplicateRegistrationFails ==
    (op.fn = "RegisterCode" /\ op.c \in DOMAIN prevPool) =>
        /\ ret.e # Nil
        /\ codePool = prevPool
        /\ CodeHTTPStatus(codePool, op.c) = CodeHTTPStatus(prevPool, op.c)
        /\ CodeString(codePool, op.c) = CodeString(prevPool, op.c)

\* C1's case: a code registered earlier as (504, "database") is registered
\* again with other details, and the call has returned its error
C1_Witness ==
    /\ op.fn = "RegisterCode"
    /\ op.c = CodeNoDatabase
    /\ CodeNoDatabase \in DOMAIN prevPool
    /\ prevPool[CodeNoDatabase] = codeDetails(504, "database")
    /\ op.httpStatus = 200
    /\ op.typeStr = "forbidden"
    /\ ret.e # Nil

\* C2: for a code that is not in the registry when the call is made (negative
\* and out-of-range codes included) CodeString returns "error" and
\* CodeHTTPStatus returns 500; the call does not fail and does not add the code.
C2_UnregisteredDefaults ==
    /\ (op.fn = "CodeString" /\ op.c \notin DOMAIN prevPool) =>
           /\ ret.s = "error"
           /\ ~ret.panic
           /\ op.c \notin DOMAIN codePool
    /\ (op.fn = "CodeHTTPStatus" /\ op.c \notin DOMAIN prevPool) =>
           /\ ret.n = 500
           /\ ~ret.panic
           /\ op.c \notin DOMAIN codePool

\* C2's case: CodeString(Code(-1)) has returned, -1 not being registered while
\* another code has been
C2_Witness ==
    /\ op.fn = "CodeString"
    /\ op.c = -1
    /\ -1 \notin DOMAIN prevPool
    /\ CodeNoDatabase \in DOMAIN prevPool
    /\ ret.s = "error"

\* C3: once RegisterCode(c, s, l) has succeeded on an unregistered code c,
\* CodeHTTPStatus(c) = s and CodeString(c) = l, directly after the call and
\* after every later sequence of calls.
C3_RegistrationPermanent ==
    /\ \A c \in DOMAIN firstReg :
           /\ CodeHTTPStatus(codePool, c) = firstReg[c].httpStatus
           /\ CodeString(codePool, c) = firstReg[c].str
    /\ (op.fn = "RegisterCode" /\ op.c \notin DOMAIN prevPool) =>
           /\ ret.e = Nil
           /\ CodeHTTPStatus(codePool, op.c) = op.httpStatus
           /\ CodeString(codePool, op.c) = op.typeStr

\* C3's case: Code(100) was registered as (504, "database"), and a later
\* RegisterCode of it with other details has been made
C3_Witness ==
    /\ CodeNoDatabase \in DOMAIN firstReg
    /\ firstReg[CodeNoDatabase] = codeDetails(504, "database")
    /\ op.fn = "RegisterCode"
    /\ op.c = CodeNoDatabase
    /\ op.httpStatus = 200
    /\ CodeNoDatabase \in DOMAIN prevPool

\* C4: no call removes a code from the registry, and the eight built-in codes
\* keep the details they were seeded with.
C4_RegistryGrowsBuiltinsKept ==
    /\ DOMAIN prevPool \subseteq DOMAIN codePool
    /\ BuiltinCodes \subseteq DOMAIN codePool
    /\ codePool[CodeUnknown] = codeDetails(500, "error")
    /\ codePool[CodeGeneric] = codeDetails(500, "error")
    /\ codePool[CodeInvalidSyntax] = codeDetails(400, "syntax")
    /\ codePool[CodeInvalidArgs] = codeDetails(400, "arguments")
    /\ codePool[CodeUnauthorized] = codeDetails(401, "auth")
    /\ codePool[CodeForbidden] = codeDetails(403, "auth")
    /\ codePool[CodeNotFound] = codeDetails(404, "missing")
    /\ codePool[CodeUnavailable] = codeDetails(503, "unavailable")

\* C4's case: two codes have been registered and a RegisterCode of the
\* built-in CodeForbidden has been attempted
C4_Witness ==
    /\ {-1, CodeNoDatabase} \subseteq DOMAIN prevPool
    /\ op.fn = "RegisterCode"
    /\ op.c = CodeForbidden
    /\ op.httpStatus = 200

---------------------------------------------------------------------------
(* Friendly, checked under SpecFriendly.                                   *)

\* the data clause as the claim words it: each value, in call order, as
\* " " + its string form + "," -- "." for the last
RECURSIVE DataClause(_, _)
DataClause(data, k) ==
    IF k > Len(data) THEN ""
    ELSE (" " \o FmtV(data[k])) \o (IF k = Len(data) THEN "." ELSE ",")
             \o DataClause(data, k + 1)

\* C7: Friendly() is "" when the friendly text and the fix are both empty,
\* whatever the data; otherwise it is the code's label, ": ", the friendly
\* text, the data clause, and " " + fix when the fix is not empty.  For the
\* test's value under CodeForbidden that is "auth: you don't have access to
\* the following things: apples, oranges. " + fix.
C7_FriendlyFormat ==
    op.fn = "Friendly" =>
        LET e == Head(op.in)
        IN  /\ (e.friendly = "" /\ e.fix = "") => ret.s = ""
            /\ ~(e.friendly = "" /\ e.fix = "") =>
                   ret.s = (((CodeString(codePool, e.code) \o ": ") \o e.friendly)
                               \o DataClause(e.data, 1))
                               \o (IF e.fix # "" THEN " " \o e.fix ELSE "")
            /\ (/\ e.code = CodeForbidden
                /\ e.friendly = "you don't have access to the following things:"
                /\ e.data = <<StrVal("apples"), StrVal("oranges")>>
                /\ e.fix # "") =>
                   ret.s = "auth: you don't have access to the following things: apples, oranges. "
                               \o e.fix

\* C7's case: Friendly() of the test's value has returned the test's string
C7_Witness ==
    /\ op.fn = "Friendly"
    /\ op.in = NewFriendlyFix(CodeForbidden, "forbidden", FriendlyText, FixText,
                              <<StrVal("apples"), StrVal("oranges")>>)
    /\ ret.s = "auth: you don't have access to the following things: apples, oranges. are you sure you're logged in?"

---------------------------------------------------------------------------
(* Constructors, Error() and Cause, checked under Spec.                    *)

Constructors ==
    {"New", "NewFriendly", "NewFriendlyFix", "Wrap", "WrapFriendly", "WrapFriendlyFix"}

\* C5: every value a constructor returns, a Wrap-family call on a nil err
\* included, has a non-nil cause.
C5_CauseNeverNil ==
    op.fn \in Constructors => (IsError(err) /\ Error_Cause(err) # Nil)

\* C6: if err is nil, Wrap returns nil.
C6_WrapNilReturnsNil ==
    (op.fn = "Wrap" /\ op.in = Nil) => err = Nil

\* C8: Error() of a value built by a constructor returns the label of its
\* code in the registry at the time of the call, ": ", and the cause's Error().
C8_ErrorFormat ==
    op.fn = "Error" =>
        /\ ~ret.panic
        /\ ret.s = (CodeString(codePool, Error_Code(op.in)) \o ": ")
                       \o DynError(codePool, Error_Cause(op.in)).s

\* C9: Cause(err) returns the innermost error of the chain, the one with no
\* further cause, unchanged: nil for nil, a plain error as it is, and never
\* an *Error for a chain that New began.
C9_CauseReturnsInnermost ==
    op.fn = "Cause" =>
        /\ ret.e = IF op.in = Nil THEN Nil ELSE <<op.in[Len(op.in)]>>
        /\ ~IsError(ret.e)

\* every chain of causes of e ends in an error, none in a nil cause
RECURSIVE NoNilCause(_)
NoNilCause(e) ==
    /\ e # Nil
    /\ IsCauser(e) => NoNilCause(Tail(e))

\* Where C8 and C9 do hold (under Spec): on every value whose chain has no
\* nil cause, Error() is the label, ": " and the cause's text -- the message
\* itself for a value New built -- and Cause returns the last error of the
\* chain, which is not an *Error.
ErrorFormatUnlessNilCause ==
    (op.fn = "Error" /\ NoNilCause(op.in)) =>
        /\ ~ret.panic
        /\ ret.s = (CodeString(codePool, Error_Code(op.in)) \o ": ")
                       \o DynError(codePool, Error_Cause(op.in)).s
        /\ (Len(op.in) = 2 /\ op.in[2].kind = "fundamental") =>
               ret.s = (CodeString(codePool, op.in[1].code) \o ": ") \o op.in[2].msg

CauseInnermostUnlessNilCause ==
    (op.fn = "Cause" /\ (op.in = Nil \/ NoNilCause(op.in))) =>
        /\ ret.e = IF op.in = Nil THEN Nil ELSE <<op.in[Len(op.in)]>>
        /\ ~IsError(ret.e)

---------------------------------------------------------------------------
(* Concurrent registration, checked under SpecConc.                        *)

\* the goroutines whose RegisterCode(c, ...) began while c was unregistered and
\* has returned
FreshRegistrars(c) ==
    {g \in Goroutines : /\ pc[g] = "done"
                        /\ loc[g].fn = "RegisterCode"
                        /\ loc[g].c = c
                        /\ loc[g].fresh}

\* C10: registry operations are atomic: of the RegisterCode calls made
\* concurrently for one unregistered code exactly one succeeds, the others
\* fail as already registered, and the registry holds that call's details.
C10_RegistrationAtomic ==
    \A c \in {CodeForbidden, CodeNoDatabase} :
        Cardinality(FreshRegistrars(c)) >= 2 =>
            \E g \in FreshRegistrars(c) :
                /\ loc[g].res = "nil"
                /\ \A h \in FreshRegistrars(c) \ {g} : loc[h].res = "already registered"
                /\ codePool[c] = codeDetails(loc[g].httpStatus, loc[g].typeStr)

\* The synchronisation C10 speaks of would also exclude the runtime's fatal
\* map-access error; the unsynchronised map does not (violated under SpecConc).
NoFatalMapAccess == ~crashed

====
